---- MODULE Spec2Model ----
(***************************************************************************)
(* Room registry and signaling relay of src/api/services/videoService.ts.  *)
(* The two module-level maps (activePeers, socketToPeer), the Socket.IO    *)
(* room subscriptions the handlers change, and one action per handler.     *)
(***************************************************************************)
EXTENDS Integers, Sequences, FiniteSets, TLC

\* ---------------------------------------------------------------- bounds
NumSockets == 2
NumMeetings == 1
NumPeers == 2
\* join handlers that may be suspended on the meeting lookup at one time
MaxPending == 1
MaxPendingCap == 2
\* free places left in the room the capacity runs start from
CapFree == 1

\* ------------------------------------------------------ program constants
MaxRoomSize == 10

\* ------------------------------------------------------------ identifiers
\* All three kinds of identifier are client- or transport-chosen strings.
Sid(i) == <<"socket", i>>
Mid(i) == <<"meeting", i>>
Pid(i) == <<"peer", i>>
None == <<"none", 0>>

Sockets == {Sid(i) : i \in 1..NumSockets}
MeetingIds == {Mid(i) : i \in 1..NumMeetings}
PeerIds == {Pid(i) : i \in 1..NumPeers}
\* data.meetingId and data.targetSocketId are any strings the client sends;
\* Socket.IO room names and socket ids share one name space, so a meetingId
\* may be a socket's id and a targetSocketId may be a meeting's id.
RoomNames == MeetingIds \cup Sockets

\* --------------------------------------------------- JavaScript payloads
Str(s) == [t |-> "string", s |-> s]
Undefined == [t |-> "undefined", s |-> <<>>]
Num42 == [t |-> "number", s |-> <<>>]

Truthy(v) == \/ v.t = "number"
             \/ v.t = "string" /\ v.s # <<>>

ToUpperChar(c) ==
    CASE c = "a" -> "A" [] c = "b" -> "B" [] c = "c" -> "C" [] c = "n" -> "N"
      [] c = "u" -> "U" [] c = "x" -> "X" [] c = "y" -> "Y"
      [] OTHER -> c

ToUpperCase(s) == [i \in 1..Len(s) |-> ToUpperChar(s[i])]

\* String.prototype.slice(-4)
SliceLast4(s) == IF Len(s) <= 4 THEN s ELSE SubSeq(s, Len(s) - 3, Len(s))

RECURSIVE TrimStart(_)
TrimStart(s) == IF s # <<>> /\ Head(s) = " " THEN TrimStart(Tail(s)) ELSE s

RECURSIVE TrimEnd(_)
TrimEnd(s) == IF s # <<>> /\ s[Len(s)] = " "
              THEN TrimEnd(SubSeq(s, 1, Len(s) - 1)) ELSE s

Trim(s) == TrimEnd(TrimStart(s))

\* line 126: userId ? userId.slice(-4).toUpperCase() : 'INVIT'
FallbackTagThrows(userId) == Truthy(userId) /\ userId.t # "string"

fallbackTag(userId) ==
    IF Truthy(userId) THEN ToUpperCase(SliceLast4(userId.s))
    ELSE <<"I", "N", "V", "I", "T">>

\* line 127: (displayName || '').trim() || `Participante ${fallbackTag}`
\* (The faulty variant after DisplayNameThrows leaves the trim out.)
DisplayNameThrows(displayName) == Truthy(displayName) /\ displayName.t # "string"

safeDisplayName_Untrimmed(userId, displayName) ==
    LET given == IF Truthy(displayName) THEN displayName.s ELSE <<>>
    IN IF given # <<>> THEN given
       ELSE <<"P", "a", "r", "t", "i", "c", "i", "p", "a", "n", "t", "e", " ">>
            \o fallbackTag(userId)

safeDisplayName(userId, displayName) ==
    LET trimmed == Trim(IF Truthy(displayName) THEN displayName.s ELSE <<>>)
    IN IF trimmed # <<>> THEN trimmed
       ELSE <<"P", "a", "r", "t", "i", "c", "i", "p", "a", "n", "t", "e", " ">>
            \o fallbackTag(userId)

\* The (userId, displayName) pairs a join request carries in this model.
Profiles ==
    { [userId |-> Str(<<"u", "1", "a", "b", "c">>),
       displayName |-> Str(<<" ", "A", "n", "a", " ">>)],
      [userId |-> Str(<<"x", "y">>), displayName |-> Undefined],
      [userId |-> Num42, displayName |-> Undefined] }

\* ------------------------------------------------------------------ state
VARIABLES
    isFirebaseEnabled,  \* firebase.ts: set once at start-up
    conn,               \* per socket: "fresh", "open" or "closed"
    activePeers,        \* meetingId -> (peerId -> MeetingPeer)
    socketToPeer,       \* socket.id -> [meetingId, peerId]
    subs,               \* Socket.IO rooms joined with socket.join: <<socket, room>>
    pending,            \* join handlers suspended on the Firestore lookup
    out,                \* events delivered by the handler that ran last
    view,               \* per socket and room: the peers the client was told of
    sc                  \* progress along the two-peer scenario, -1 when left

vars == <<isFirebaseEnabled, conn, activePeers, socketToPeer, subs, pending,
          out, view, sc>>

\* ---------------------------------------------------------------- helpers
EmptyMap == [k \in {} |-> k]

Remove(f, k) == [x \in DOMAIN f \ {k} |-> f[x]]

Put(f, k, v) == [x \in DOMAIN f \cup {k} |-> IF x = k THEN v ELSE f[x]]

Open(c) == {s \in Sockets : c[s] = "open"}

\* One delivered event: recipient, event name, the room it was sent through,
\* and the payload fields.
\* The record field of an event that carries no participant record.
NoRecord == [peerId |-> None, socketId |-> None, userId |-> Undefined,
             displayName |-> <<>>]

Msg(to, event, via, peerId, peers, text, sender) ==
    [to |-> to, event |-> event, via |-> via, peerId |-> peerId,
     peers |-> peers, text |-> text, sender |-> sender, rec |-> NoRecord]

\* lines 161-166: the events msgs with the participant record as payload
\* ({ socketId, odiserId, userId, displayName }).
WithRecord(msgs, rec) == {[x EXCEPT !.rec = rec] : x \in msgs}

\* Socket.IO: a connected socket is in the room named by its own id and in
\* every room it joined; a broadcast reaches connected sockets only.
Members(sb, opn, room) ==
    {s \in opn : s = room \/ <<s, room>> \in sb}

\* io.to(room).emit(...)
EmitToRoom(sb, opn, room, event, peerId, sender) ==
    {Msg(s, event, room, peerId, {}, "", sender) : s \in Members(sb, opn, room)}

\* socket.to(room).emit(...): everyone in the room but the sender
EmitToOthers(sb, opn, s, room, event, peerId) ==
    {Msg(t, event, room, peerId, {}, "", s) : t \in Members(sb, opn, room) \ {s}}

\* socket.emit(...)
EmitToSelf(opn, s, event, via, peers, text) ==
    {Msg(s, event, via, None, peers, text, None) : t \in {s} \cap opn}

\* Faulty variant: the capacity test written with > for >=.
RoomIsFull_OffByOne(peers) == Cardinality(DOMAIN peers) > MaxRoomSize

\* line 113: peers.size >= 10
RoomIsFull(peers) == Cardinality(DOMAIN peers) >= MaxRoomSize

\* --------------------------------------------------- join-video-room body
\* Lines 107-166 and the catch of 168-171: everything the handler does once
\* the meeting lookup (if any) has let it through.  ap, stp, sb are the
\* values of activePeers, socketToPeer and subs it starts from, opn the
\* connected sockets; the result carries the values it leaves.
\* Faulty variant: the stale entry of peerId is deleted (lines 119-122)
\* before the room is counted (line 113).
JoinResult_ReplaceFirst(ap, stp, sb, opn, s, m, p, prof) ==
    LET created == IF m \in DOMAIN ap THEN ap ELSE Put(ap, m, EmptyMap)
        stale == Remove(created[m], p)
        joined == sb \cup {<<s, m>>}
        rec == [peerId |-> p, socketId |-> s, userId |-> prof.userId,
                displayName |-> safeDisplayName(prof.userId, prof.displayName)]
        stored == Put(stale, p, rec)
        others == DOMAIN stored \ {p}
    IN IF RoomIsFull(stale)
       THEN [ap |-> Put(created, m, stale), stp |-> stp, sb |-> sb,
             status |-> "full",
             out |-> EmitToSelf(opn, s, "video-error", None, {},
                                "Meeting full (maximum 10 users)")]
       ELSE IF FallbackTagThrows(prof.userId) \/ DisplayNameThrows(prof.displayName)
       THEN [ap |-> Put(created, m, stale), stp |-> stp, sb |-> joined,
             status |-> "error",
             out |-> EmitToSelf(opn, s, "video-error", None, {},
                                "Internal server error")]
       ELSE [ap |-> Put(created, m, stored),
             stp |-> Put(stp, s, [meetingId |-> m, peerId |-> p]),
             sb |-> joined, status |-> "joined",
             out |-> EmitToOthers(joined, opn, s, m, "peer-joined", p)
                     \cup EmitToSelf(opn, s, "video-joined", m, others, "")
                     \cup EmitToSelf(opn, s, "room-participants", m, others, "")
                     \cup WithRecord(EmitToOthers(joined, opn, s, m,
                                                  "participant-joined", p), rec)]

JoinResult(ap, stp, sb, opn, s, m, p, prof) ==
    LET created == IF m \in DOMAIN ap THEN ap ELSE Put(ap, m, EmptyMap)
        peers == created[m]
        stale == Remove(peers, p)
        joined == sb \cup {<<s, m>>}
        rec == [peerId |-> p, socketId |-> s, userId |-> prof.userId,
                displayName |-> safeDisplayName(prof.userId, prof.displayName)]
        stored == Put(stale, p, rec)
        others == DOMAIN stored \ {p}
    IN IF RoomIsFull(peers)
       THEN [ap |-> created, stp |-> stp, sb |-> sb, status |-> "full",
             out |-> EmitToSelf(opn, s, "video-error", None, {},
                                "Meeting full (maximum 10 users)")]
       ELSE IF FallbackTagThrows(prof.userId) \/ DisplayNameThrows(prof.displayName)
       THEN [ap |-> Put(created, m, stale), stp |-> stp, sb |-> joined,
             status |-> "error",
             out |-> EmitToSelf(opn, s, "video-error", None, {},
                                "Internal server error")]
       ELSE [ap |-> Put(created, m, stored),
             stp |-> Put(stp, s, [meetingId |-> m, peerId |-> p]),
             sb |-> joined, status |-> "joined",
             out |-> EmitToOthers(joined, opn, s, m, "peer-joined", p)
                     \cup EmitToSelf(opn, s, "video-joined", m, others, "")
                     \cup EmitToSelf(opn, s, "room-participants", m, others, "")
                     \cup WithRecord(EmitToOthers(joined, opn, s, m,
                                                  "participant-joined", p), rec)]

\* ------------------------------------------------------------- observers
\* What a client knows of a room after the events of one handler reached it:
\* video-joined replaces its list, peer-joined adds, peer-disconnected removes.
ApplyView(v, msgs) ==
    [k \in DOMAIN v |->
        LET mine == {x \in msgs : x.to = k[1] /\ x.via = k[2]}
            boot == {x \in mine : x.event = "video-joined"}
        IN IF boot # {} THEN UNION {x.peers : x \in boot}
           ELSE (v[k] \cup {x.peerId : x \in {y \in mine : y.event = "peer-joined"}})
                \ {x.peerId : x \in {y \in mine : y.event = "peer-disconnected"}}]

NoView == [k \in Sockets \X RoomNames |-> {}]

\* The scenario of two peers joining one meeting and then disconnecting.
ScenarioSteps ==
    << <<"joined", Sid(1), Mid(1), Pid(1)>>,
       <<"joined", Sid(2), Mid(1), Pid(2)>>,
       <<"disconnect", Sid(1), None, None>>,
       <<"disconnect", Sid(2), None, None>> >>

ScenarioNext(cur, step) ==
    IF cur >= 0 /\ cur < Len(ScenarioSteps) /\ ScenarioSteps[cur + 1] = step
    THEN cur + 1 ELSE -1

\* ---------------------------------------------------------------- actions
Init ==
    /\ isFirebaseEnabled \in BOOLEAN
    /\ conn = [s \in Sockets |-> "fresh"]
    /\ activePeers = EmptyMap
    /\ socketToPeer = EmptyMap
    /\ subs = {}
    /\ pending = {}
    /\ out = {}
    /\ view = NoView
    /\ sc = 0

\* line 72: io.on('connection')
Connect(s) ==
    /\ conn[s] = "fresh"
    /\ conn' = [conn EXCEPT ![s] = "open"]
    /\ out' = {}
    /\ UNCHANGED <<isFirebaseEnabled, activePeers, socketToPeer, subs, pending,
                   view, sc>>

\* Lines 107-171 applied to the current state.
JoinBody(s, m, p, prof) ==
    LET r == JoinResult(activePeers, socketToPeer, subs, Open(conn), s, m, p, prof)
    IN /\ activePeers' = r.ap
       /\ socketToPeer' = r.stp
       /\ subs' = r.sb
       /\ out' = r.out
       /\ view' = ApplyView(view, r.out)
       /\ sc' = ScenarioNext(sc, <<r.status, s, m, p>>)

\* join-video-room without Firestore: the async handler has no await on
\* this path and runs to completion in one turn.
JoinVideoRoom(s, m, p, prof) ==
    /\ ~isFirebaseEnabled
    /\ conn[s] = "open"
    /\ JoinBody(s, m, p, prof)
    /\ UNCHANGED <<isFirebaseEnabled, conn, pending>>

\* join-video-room with Firestore, up to the await of line 98.
JoinStart(s, m, p, prof) ==
    /\ isFirebaseEnabled
    /\ conn[s] = "open"
    /\ pending' = pending \cup {[socket |-> s, meetingId |-> m, peerId |-> p,
                                 profile |-> prof]}
    /\ out' = {}
    /\ UNCHANGED <<isFirebaseEnabled, conn, activePeers, socketToPeer, subs,
                   view, sc>>

\* Faulty variant: the continuation goes on to the body whatever the lookup
\* found, and only a lookup that threw stops it.
JoinResume_IgnoresStatus(req, lookup) ==
    /\ req \in pending
    /\ pending' = pending \ {req}
    /\ CASE lookup \in {"active", "unavailable"} ->
              JoinBody(req.socket, req.meetingId, req.peerId, req.profile)
         [] lookup = "throws" ->
              /\ out' = EmitToSelf(Open(conn), req.socket, "video-error", None, {},
                                   "Internal server error")
              /\ sc' = -1
              /\ UNCHANGED <<activePeers, socketToPeer, subs, view>>
    /\ UNCHANGED <<isFirebaseEnabled, conn>>

\* The continuation after the await: the lookup found an active meeting,
\* found none (or an inactive one), or threw.
JoinResume(req, lookup) ==
    /\ req \in pending
    /\ pending' = pending \ {req}
    /\ CASE lookup = "active" ->
              JoinBody(req.socket, req.meetingId, req.peerId, req.profile)
         [] lookup = "unavailable" ->
              /\ out' = EmitToSelf(Open(conn), req.socket, "video-error", None, {},
                                   "Meeting not found or inactive")
              /\ sc' = -1
              /\ UNCHANGED <<activePeers, socketToPeer, subs, view>>
         [] lookup = "throws" ->
              /\ out' = EmitToSelf(Open(conn), req.socket, "video-error", None, {},
                                   "Internal server error")
              /\ sc' = -1
              /\ UNCHANGED <<activePeers, socketToPeer, subs, view>>
    /\ UNCHANGED <<isFirebaseEnabled, conn>>

\* Lines 188-193 and 277-282: delete peerId from the room and drop the room
\* when that leaves it empty.  (The faulty variant before it forgets the
\* second part.)
RemovePeer_KeepsEmptyRoom(ap, m, p) ==
    IF m \in DOMAIN ap /\ p \in DOMAIN ap[m]
    THEN Put(ap, m, Remove(ap[m], p))
    ELSE ap

RemovePeer(ap, m, p) ==
    IF m \in DOMAIN ap /\ p \in DOMAIN ap[m]
    THEN IF DOMAIN ap[m] = {p} THEN Remove(ap, m)
         ELSE Put(ap, m, Remove(ap[m], p))
    ELSE ap

\* Faulty variant: the result of peers.delete is not looked at and the
\* notification is sent whenever the room exists.
Removed_RoomExists(ap, m, p) == m \in DOMAIN ap

\* line 188, 277: the result of peers.delete(peerId)
Removed(ap, m, p) == m \in DOMAIN ap /\ p \in DOMAIN ap[m]

\* leave-video-room, lines 180-199
LeaveVideoRoom(s, m, p) ==
    /\ conn[s] = "open"
    /\ LET left == subs \ {<<s, m>>}
           msgs == IF Removed(activePeers, m, p)
                   THEN EmitToRoom(left, Open(conn), m, "peer-disconnected", p, None)
                   ELSE {}
       IN /\ subs' = left
          /\ activePeers' = RemovePeer(activePeers, m, p)
          /\ socketToPeer' = Remove(socketToPeer, s)
          /\ out' = msgs
          /\ view' = ApplyView(view, msgs)
    /\ sc' = -1
    /\ UNCHANGED <<isFirebaseEnabled, conn, pending>>

\* The transport closes the socket (it leaves every room) and the
\* disconnect handler of lines 268-287 runs.
Disconnect(s) ==
    /\ conn[s] = "open"
    /\ conn' = [conn EXCEPT ![s] = "closed"]
    /\ LET left == {x \in subs : x[1] # s}
           known == s \in DOMAIN socketToPeer
           m == socketToPeer[s].meetingId
           p == socketToPeer[s].peerId
           msgs == IF known /\ Removed(activePeers, m, p)
                   THEN EmitToRoom(left, Open(conn'), m, "peer-disconnected", p, None)
                   ELSE {}
       IN /\ subs' = left
          /\ activePeers' = IF known THEN RemovePeer(activePeers, m, p)
                            ELSE activePeers
          /\ socketToPeer' = Remove(socketToPeer, s)
          /\ out' = msgs
          /\ view' = ApplyView(view, msgs)
    /\ sc' = ScenarioNext(sc, <<"disconnect", s, None, None>>)
    /\ UNCHANGED <<isFirebaseEnabled, pending>>

\* Faulty variant: line 272 missing, the entry is destructured without the
\* `if (details)` guard and the handler throws when there is none.
CloseResult_NoGuard(ap, stp, sb, opn, s) ==
    IF s \in DOMAIN stp
    THEN LET m == stp[s].meetingId
             p == stp[s].peerId
         IN [ap |-> RemovePeer(ap, m, p), stp |-> Remove(stp, s),
             out |-> IF Removed(ap, m, p)
                     THEN EmitToRoom(sb, opn, m, "peer-disconnected", p, None)
                     ELSE {},
             threw |-> FALSE]
    ELSE [ap |-> ap, stp |-> stp, out |-> {}, threw |-> TRUE]

\* Lines 268-287 as a function of the registry: what the disconnect handler
\* of socket s leaves when it starts from ap, stp with the subscriptions sb
\* and the connected sockets opn.
CloseResult(ap, stp, sb, opn, s) ==
    IF s \in DOMAIN stp
    THEN LET m == stp[s].meetingId
             p == stp[s].peerId
         IN [ap |-> RemovePeer(ap, m, p), stp |-> Remove(stp, s),
             out |-> IF Removed(ap, m, p)
                     THEN EmitToRoom(sb, opn, m, "peer-disconnected", p, None)
                     ELSE {},
             threw |-> FALSE]
    ELSE [ap |-> ap, stp |-> stp, out |-> {}, threw |-> FALSE]

\* The close event of a socket that is already closed is delivered once
\* more: the handler of lines 268-287 runs again, the transport does nothing.
Redeliver(s) ==
    /\ conn[s] \in {"closed", "reclosed"}
    /\ conn' = [conn EXCEPT ![s] = "reclosed"]
    /\ LET r == CloseResult(activePeers, socketToPeer, subs, Open(conn), s)
       IN /\ activePeers' = r.ap
          /\ socketToPeer' = r.stp
          /\ out' = r.out
          /\ view' = ApplyView(view, r.out)
    /\ sc' = -1
    /\ UNCHANGED <<isFirebaseEnabled, subs, pending>>

\* peerServer.on('disconnect'), lines 50-69
PeerServerDisconnect(p) ==
    LET hit == {m \in DOMAIN activePeers : p \in DOMAIN activePeers[m]}
        msgs == UNION {EmitToRoom(subs, Open(conn), m, "peer-disconnected", p, None)
                       : m \in hit}
    IN /\ activePeers' =
              [m \in {x \in DOMAIN activePeers : DOMAIN activePeers[x] # {p}}
                 |-> Remove(activePeers[m], p)]
       /\ socketToPeer' =
              [s \in {x \in DOMAIN socketToPeer :
                        ~(socketToPeer[x].peerId = p
                          /\ socketToPeer[x].meetingId \in hit)}
                 |-> socketToPeer[s]]
       /\ out' = msgs
       /\ view' = ApplyView(view, msgs)
       /\ sc' = -1
       /\ UNCHANGED <<isFirebaseEnabled, conn, subs, pending>>

\* webrtc-offer / webrtc-answer / ice-candidate, lines 222-250:
\* io.to(targetSocketId).emit(kind, { senderSocketId: socket.id, ... })
RelayKinds == {"webrtc-offer", "webrtc-answer", "ice-candidate"}

\* The offer, answer or candidate objects a client sends in this model.
Payloads == {"payload-a", "payload-b"}

\* Faulty variant: senderSocketId is filled with the target's id.
Relay_SenderIsTarget(s, kind, target, payload) ==
    /\ conn[s] = "open"
    /\ out' = {Msg(t, kind, target, None, {}, payload, target) :
                 t \in Members(subs, Open(conn), target)}
    /\ UNCHANGED <<isFirebaseEnabled, conn, activePeers, socketToPeer, subs,
                   pending, view, sc>>

\* The event carries { senderSocketId: socket.id, offer | answer | candidate }
\* and nothing else: no peer id.
Relay(s, kind, target, payload) ==
    /\ conn[s] = "open"
    /\ out' = {Msg(t, kind, target, None, {}, payload, s) :
                 t \in Members(subs, Open(conn), target)}
    /\ UNCHANGED <<isFirebaseEnabled, conn, activePeers, socketToPeer, subs,
                   pending, view, sc>>

\* authenticate, lines 79-81: the handler only logs.
Authenticate(s) ==
    /\ conn[s] = "open"
    /\ out' = {}
    /\ UNCHANGED <<isFirebaseEnabled, conn, activePeers, socketToPeer, subs,
                   pending, view, sc>>

\* Faulty variant: ending a meeting also drops its room from the registry.
EndMeeting_DropsRoom(s, room) ==
    /\ conn[s] = "open"
    /\ out' = EmitToRoom(subs, Open(conn), room, "force-disconnect", None, None)
    /\ activePeers' = Remove(activePeers, room)
    /\ UNCHANGED <<isFirebaseEnabled, conn, socketToPeer, subs, pending, view,
                   sc>>

\* end-meeting, lines 206-213: io.to(meetingId).emit('force-disconnect')
EndMeeting(s, room) ==
    /\ conn[s] = "open"
    /\ out' = EmitToRoom(subs, Open(conn), room, "force-disconnect", None, None)
    /\ UNCHANGED <<isFirebaseEnabled, conn, activePeers, socketToPeer, subs,
                   pending, view, sc>>

\* The isVideoEnabled values of a media-state-change.
MediaStates == {"video-on", "video-off"}

\* media-state-change, lines 258-261:
\* socket.to(roomId).emit('media-state-changed', { socketId, isVideoEnabled })
MediaStateChange(s, room, enabled) ==
    /\ conn[s] = "open"
    /\ out' = {Msg(t, "media-state-changed", room, None, {}, enabled, s) :
                 t \in Members(subs, Open(conn), room) \ {s}}
    /\ UNCHANGED <<isFirebaseEnabled, conn, activePeers, socketToPeer, subs,
                   pending, view, sc>>

\* The (userId, displayName) of a well-formed request.
PlainProfiles == {f \in Profiles : f.userId.t = "string"}

Next ==
    \/ \E s \in Sockets : Connect(s)
    \/ \E s \in Sockets, m \in MeetingIds, p \in PeerIds, prof \in Profiles :
          JoinVideoRoom(s, m, p, prof)
    \/ \E s \in Sockets, m \in MeetingIds, p \in PeerIds, prof \in Profiles :
          Cardinality(pending) < MaxPending /\ JoinStart(s, m, p, prof)
    \/ \E req \in pending, lookup \in {"active", "unavailable", "throws"} :
          JoinResume(req, lookup)
    \/ \E s \in Sockets, m \in MeetingIds, p \in PeerIds : LeaveVideoRoom(s, m, p)
    \/ \E s \in Sockets : Disconnect(s)
    \/ \E p \in PeerIds : PeerServerDisconnect(p)

Spec == Init /\ [][Next]_vars

\* Only the three socket events, and only requests whose userId and
\* displayName are strings or absent (no handler throws).
NextPlain ==
    \/ \E s \in Sockets : Connect(s)
    \/ \E s \in Sockets, m \in MeetingIds, p \in PeerIds, prof \in PlainProfiles :
          JoinVideoRoom(s, m, p, prof)
    \/ \E s \in Sockets, m \in MeetingIds, p \in PeerIds, prof \in PlainProfiles :
          Cardinality(pending) < MaxPending /\ JoinStart(s, m, p, prof)
    \/ \E req \in pending, lookup \in {"active", "unavailable", "throws"} :
          JoinResume(req, lookup)
    \/ \E s \in Sockets, m \in MeetingIds, p \in PeerIds : LeaveVideoRoom(s, m, p)
    \/ \E s \in Sockets : Disconnect(s)

SpecPlain == Init /\ [][NextPlain]_vars

\* The same handlers when the transport may deliver a close event again.
NextRedeliver ==
    \/ NextPlain
    \/ \E s \in Sockets : Redeliver(s)

SpecRedeliver == Init /\ [][NextRedeliver]_vars

\* The same handlers with the Peer.js server's disconnect event.
NextPeerServer ==
    \/ NextPlain
    \/ \E p \in PeerIds : PeerServerDisconnect(p)

SpecPeerServer == Init /\ [][NextPeerServer]_vars

\* ------------------------------------------------- a room close to capacity
\* The state after socket 1 has joined meeting 1 under n different peer ids,
\* computed by the join handler itself.
CapProfile == [userId |-> Str(<<"x", "y">>), displayName |-> Undefined]

RECURSIVE Prefilled(_)
Prefilled(n) ==
    IF n = 0
    THEN [ap |-> EmptyMap, stp |-> EmptyMap, sb |-> {}, out |-> {}, view |-> NoView]
    ELSE LET prev == Prefilled(n - 1)
             r == JoinResult(prev.ap, prev.stp, prev.sb, {Sid(1)},
                             Sid(1), Mid(1), Pid(n), CapProfile)
         IN [ap |-> r.ap, stp |-> r.stp, sb |-> r.sb, out |-> r.out,
             view |-> ApplyView(prev.view, r.out)]

PrefillSize == MaxRoomSize - CapFree

CapPeerIds == {Pid(i) : i \in (PrefillSize + 1)..(MaxRoomSize + 1)}

InitCap ==
    LET st == Prefilled(PrefillSize)
    IN /\ isFirebaseEnabled \in BOOLEAN
       /\ conn = [s \in Sockets |-> IF s = Sid(1) THEN "open" ELSE "fresh"]
       /\ activePeers = st.ap
       /\ socketToPeer = st.stp
       /\ subs = st.sb
       /\ pending = {}
       /\ out = st.out
       /\ view = st.view
       /\ sc = -1

NextCap ==
    \/ \E s \in Sockets : Connect(s)
    \/ \E s \in Sockets, p \in CapPeerIds :
          JoinVideoRoom(s, Mid(1), p, CapProfile)
    \/ \E s \in Sockets, p \in CapPeerIds :
          Cardinality(pending) < MaxPendingCap /\ JoinStart(s, Mid(1), p, CapProfile)
    \/ \E req \in pending, lookup \in {"active", "unavailable", "throws"} :
          JoinResume(req, lookup)
    \/ \E s \in Sockets, p \in CapPeerIds : LeaveVideoRoom(s, Mid(1), p)
    \/ \E s \in Sockets : Disconnect(s)

SpecCap == InitCap /\ [][NextCap]_vars

\* ------------------------------------------------------- a full room
\* The room of meeting 1 holds MaxRoomSize participants, and every request
\* names a peer id that was one of them.
RejoinPeerIds == {Pid(1), Pid(MaxRoomSize)}

InitRejoin ==
    LET st == Prefilled(MaxRoomSize)
    IN /\ isFirebaseEnabled \in BOOLEAN
       /\ conn = [s \in Sockets |-> IF s = Sid(1) THEN "open" ELSE "fresh"]
       /\ activePeers = st.ap
       /\ socketToPeer = st.stp
       /\ subs = st.sb
       /\ pending = {}
       /\ out = st.out
       /\ view = st.view
       /\ sc = -1

NextRejoin ==
    \/ \E s \in Sockets : Connect(s)
    \/ \E s \in Sockets, p \in RejoinPeerIds, prof \in PlainProfiles :
          JoinVideoRoom(s, Mid(1), p, prof)
    \/ \E s \in Sockets, p \in RejoinPeerIds, prof \in PlainProfiles :
          Cardinality(pending) < MaxPending /\ JoinStart(s, Mid(1), p, prof)
    \/ \E req \in pending, lookup \in {"active", "unavailable", "throws"} :
          JoinResume(req, lookup)
    \/ \E s \in Sockets, p \in RejoinPeerIds : LeaveVideoRoom(s, Mid(1), p)
    \/ \E s \in Sockets : Disconnect(s)

SpecRejoin == InitRejoin /\ [][NextRejoin]_vars

\* ------------------------------------------------------ signaling relay
\* Firestore not configured (README: meetings are then not validated), one
\* peer id, and requests that name any room: a meeting or a socket id.
RelayRooms == {Mid(1), Sid(1)}

InitRelay ==
    /\ Init
    /\ ~isFirebaseEnabled

NextRelay ==
    \/ \E s \in Sockets : Connect(s)
    \/ \E s \in Sockets, m \in RelayRooms : JoinVideoRoom(s, m, Pid(1), CapProfile)
    \/ \E s \in Sockets, m \in RelayRooms : LeaveVideoRoom(s, m, Pid(1))
    \/ \E s \in Sockets : Disconnect(s)
    \/ \E s \in Sockets, kind \in RelayKinds, target \in RoomNames,
          payload \in Payloads :
          Relay(s, kind, target, payload)

SpecRelay == InitRelay /\ [][NextRelay]_vars

\* ------------------------------------------------- signaling and presentation
\* The relay runs with the three handlers that address a room by a name the
\* client gives: a meeting id or, as any string may be sent, a socket id.
NextSignal ==
    \/ \E s \in Sockets : Connect(s)
    \/ \E s \in Sockets : JoinVideoRoom(s, Mid(1), Pid(1), CapProfile)
    \/ \E s \in Sockets : LeaveVideoRoom(s, Mid(1), Pid(1))
    \/ \E s \in Sockets : Disconnect(s)
    \/ \E s \in Sockets, kind \in RelayKinds, target \in RoomNames,
          payload \in Payloads :
          Relay(s, kind, target, payload)
    \/ \E s \in Sockets : Authenticate(s)
    \/ \E s \in Sockets, room \in RoomNames : EndMeeting(s, room)
    \/ \E s \in Sockets, room \in RoomNames, enabled \in MediaStates :
          MediaStateChange(s, room, enabled)

SpecSignal == InitRelay /\ [][NextSignal]_vars

\* ------------------------------------------------------- display names
\* Requests that differ in userId and displayName only: absent, empty,
\* blank, padded, shorter and longer than four characters.
NameUserIds ==
    {Undefined, Str(<<>>), Str(<<"x", "y">>), Str(<<"u", "1", "a", "b", "c">>),
     Str(<<"a", "b", "c", "n">>)}

NameDisplayNames ==
    {Undefined, Str(<<>>), Str(<<" ", " ">>), Str(<<" ", "A", "n", "a", " ">>),
     Str(<<"A", " ", "b">>)}

NameProfiles ==
    {[userId |-> u, displayName |-> d] : u \in NameUserIds, d \in NameDisplayNames}

InitName ==
    /\ Init
    /\ ~isFirebaseEnabled

NextName ==
    \/ \E s \in Sockets : Connect(s)
    \/ \E s \in Sockets, m \in MeetingIds, prof \in NameProfiles :
          JoinVideoRoom(s, m, Pid(1), prof)
    \/ \E s \in Sockets : Disconnect(s)

SpecName == InitName /\ [][NextName]_vars

\* ------------------------------------------------- no meeting document
\* The server in either configuration when the meetings collection holds no
\* active document: every lookup of line 98 comes back without an active
\* meeting (or throws), and with Firestore off nothing is looked up.
NextNoMeeting ==
    \/ \E s \in Sockets : Connect(s)
    \/ \E s \in Sockets, m \in MeetingIds, p \in PeerIds, prof \in PlainProfiles :
          JoinVideoRoom(s, m, p, prof)
    \/ \E s \in Sockets, m \in MeetingIds, p \in PeerIds, prof \in PlainProfiles :
          Cardinality(pending) < MaxPending /\ JoinStart(s, m, p, prof)
    \/ \E req \in pending, lookup \in {"unavailable", "throws"} :
          JoinResume(req, lookup)
    \/ \E s \in Sockets, m \in MeetingIds, p \in PeerIds : LeaveVideoRoom(s, m, p)
    \/ \E s \in Sockets : Disconnect(s)

SpecNoMeeting == Init /\ [][NextNoMeeting]_vars

\* ================================================================ claims
RoomSize(ap, m) == IF m \in DOMAIN ap THEN Cardinality(DOMAIN ap[m]) ELSE 0

AllPeerIds == PeerIds \cup CapPeerIds

\* The step is the body of a join-video-room of socket s for (m, p), run
\* either at once or after the meeting lookup answered "active".
JoinRuns(s, m, p, prof) ==
    \/ JoinVideoRoom(s, m, p, prof)
    \/ JoinResume([socket |-> s, meetingId |-> m, peerId |-> p, profile |-> prof],
                  "active")

FullText == "Meeting full (maximum 10 users)"

\* C1: socketToPeer and activePeers are mutually consistent: every index
\* entry names a participant that exists in that room with that socket id, and
\* every participant whose socket is open has an index entry pointing to it.
C1_IndexConsistent ==
    /\ \A s \in DOMAIN socketToPeer :
          LET e == socketToPeer[s]
          IN /\ e.meetingId \in DOMAIN activePeers
             /\ e.peerId \in DOMAIN activePeers[e.meetingId]
             /\ activePeers[e.meetingId][e.peerId].socketId = s
    /\ \A m \in DOMAIN activePeers : \A p \in DOMAIN activePeers[m] :
          LET s == activePeers[m][p].socketId
          IN conn[s] = "open" =>
                /\ s \in DOMAIN socketToPeer
                /\ socketToPeer[s] = [meetingId |-> m, peerId |-> p]

\* C2: a meeting id is a key of activePeers only if its room has at least one
\* participant (the converse holds by construction: a room with participants
\* is a key): no empty room is left in the registry by any handler.
C2_NoEmptyRoom ==
    \A m \in DOMAIN activePeers : DOMAIN activePeers[m] # {}

\* C3: a join that reaches the capacity check when the room holds 10
\* participants sends the room-full error to the requester and to nobody
\* else, and leaves activePeers, socketToPeer and the subscriptions unchanged.
C3_FullRoomRejects ==
    [][\A s \in Sockets, m \in MeetingIds, p \in AllPeerIds, prof \in Profiles :
          (JoinRuns(s, m, p, prof) /\ RoomSize(activePeers, m) = MaxRoomSize)
          => /\ UNCHANGED <<activePeers, socketToPeer, subs>>
             /\ \A x \in out' :
                   x.to = s /\ x.event = "video-error" /\ x.text = FullText
             /\ conn[s] = "open" => out' # {}]_vars

\* A full room whose last handler answered with the room-full error.
C3_Witness ==
    /\ RoomSize(activePeers, Mid(1)) = MaxRoomSize
    /\ \E x \in out : x.event = "video-error" /\ x.text = FullText

\* C4: no room ever holds more than 10 participants, whatever the
\* interleaving of suspended joins, leaves and disconnects.
C4_CapacityNeverExceeded ==
    \A m \in DOMAIN activePeers : RoomSize(activePeers, m) <= MaxRoomSize

\* Two joins were suspended on the lookup with one place left; one has taken
\* the place and the other, for a peer id not in the room, is still to resume.
C4_Witness ==
    /\ isFirebaseEnabled
    /\ RoomSize(activePeers, Mid(1)) = MaxRoomSize
    /\ \E req \in pending :
          /\ req.meetingId = Mid(1)
          /\ req.peerId \notin DOMAIN activePeers[Mid(1)]
          /\ \E x \in out : x.event = "video-joined" /\ x.to # req.socket

\* The join body ran for (s, m, p) and was neither rejected nor threw.
JoinSucceeds(s, m, p, prof) ==
    /\ JoinRuns(s, m, p, prof)
    /\ JoinResult(activePeers, socketToPeer, subs, Open(conn), s, m, p, prof).status
          = "joined"

\* C5: a successful join with a peerId already in the room replaces the old
\* entry: the room keeps its size, the entry of that peerId carries the new
\* socket id, userId and displayName, and nothing of the stale entry is left,
\* its socketToPeer entry included.
C5_RejoinReplaces ==
    [][\A s \in Sockets, m \in MeetingIds, p \in PeerIds, prof \in Profiles :
          (JoinSucceeds(s, m, p, prof) /\ Removed(activePeers, m, p))
          => /\ RoomSize(activePeers', m) = RoomSize(activePeers, m)
             /\ p \in DOMAIN activePeers'[m]
             /\ activePeers'[m][p].socketId = s
             /\ activePeers'[m][p].userId = prof.userId
             /\ activePeers'[m][p].displayName
                   = safeDisplayName(prof.userId, prof.displayName)
             /\ \A t \in DOMAIN socketToPeer' \ {s} :
                   socketToPeer'[t] # [meetingId |-> m, peerId |-> p]]_vars

\* C6: a leave-video-room for a (meetingId, peerId) that is no participant,
\* and a disconnect of a socket without index entry, emit nothing and leave
\* activePeers and socketToPeer unchanged.
C6_UnknownIsNoOp ==
    [][/\ \A s \in Sockets, m \in MeetingIds, p \in PeerIds :
             (LeaveVideoRoom(s, m, p) /\ ~Removed(activePeers, m, p))
             => out' = {} /\ UNCHANGED <<activePeers, socketToPeer>>
       /\ \A s \in Sockets :
             (Disconnect(s) /\ s \notin DOMAIN socketToPeer)
             => out' = {} /\ UNCHANGED <<activePeers, socketToPeer>>]_vars

\* C7: every participant whose socket is open has been told of exactly the
\* other participants of its room (roster on join, plus peer-joined, minus
\* peer-disconnected).
C7_ViewAccurate ==
    \A m \in DOMAIN activePeers : \A p \in DOMAIN activePeers[m] :
       LET s == activePeers[m][p].socketId
       IN conn[s] = "open" => view[<<s, m>>] = DOMAIN activePeers[m] \ {p}

Delivered(to, event, via, peerId, peers) ==
    \E x \in out : /\ x.to = to /\ x.event = event /\ x.via = via
                   /\ x.peerId = peerId /\ x.peers = peers

\* C8: from the empty registry, peer 1 joins meeting 1 and receives an empty
\* roster; peer 2 joins, receives the roster {peer 1} and peer 1 is told of
\* peer 2; socket 1 disconnects: the room holds peer 2 only and socket 2 is
\* told that peer 1 left; socket 2 disconnects: the room is gone and the
\* index is empty.
C8_Scenario ==
    [][/\ (sc = 0 /\ sc' = 1)
          => Delivered(Sid(1), "video-joined", Mid(1), None, {})'
       /\ (sc = 1 /\ sc' = 2)
          => /\ Delivered(Sid(2), "video-joined", Mid(1), None, {Pid(1)})'
             /\ Delivered(Sid(1), "peer-joined", Mid(1), Pid(2), {})'
             /\ Delivered(Sid(1), "participant-joined", Mid(1), Pid(2), {})'
       /\ (sc = 2 /\ sc' = 3)
          => /\ DOMAIN activePeers' = {Mid(1)}
             /\ DOMAIN activePeers'[Mid(1)] = {Pid(2)}
             /\ Delivered(Sid(2), "peer-disconnected", Mid(1), Pid(1), {})'
       /\ (sc = 3 /\ sc' = 4)
          => /\ activePeers' = EmptyMap
             /\ socketToPeer' = EmptyMap]_vars

\* The scenario has run to its end.
C8_Witness == sc = 4 /\ conn[Sid(1)] = "closed" /\ conn[Sid(2)] = "closed"

\* C9: a relayed offer, answer or candidate reaches no connection other than
\* the one whose socket id is the target the client named.
C9_AddressedDelivery ==
    \A x \in out : x.event \in RelayKinds => x.to = x.via

\* C10: no relayed event is delivered to anyone when its target is a socket
\* that has disconnected.
C10_DroppedWhenTargetGone ==
    \A x \in out :
       x.event \in RelayKinds => ~(x.via \in Sockets /\ conn[x.via] = "closed")


UnavailableText == "Meeting not found or inactive"

\* C11 (as written): whatever the configuration, no join for a meeting without
\* an active document creates a room, a participant, an index entry or a
\* subscription.
C11_NeverCreates ==
    /\ activePeers = EmptyMap
    /\ socketToPeer = EmptyMap
    /\ subs = {}

\* C11: with Firestore configured, a join-video-room for a meeting that does
\* not exist or is not active changes neither activePeers, socketToPeer nor
\* the subscriptions, and its only emission is the error to the requesting
\* socket; with Firestore not configured the meeting is not looked up.
C11_UnavailableRejected ==
    [][/\ isFirebaseEnabled =>
             (activePeers' = EmptyMap /\ socketToPeer' = EmptyMap /\ subs' = {})
       /\ \A req \in pending :
             JoinResume(req, "unavailable") =>
                /\ UNCHANGED <<activePeers, socketToPeer, subs>>
                /\ out' = IF conn[req.socket] = "open"
                          THEN {Msg(req.socket, "video-error", None, None, {},
                                    UnavailableText, None)}
                          ELSE {}]_vars

\* The requester of a join for a missing meeting holds the error.
C11_Witness ==
    /\ isFirebaseEnabled
    /\ \E x \in out : x.event = "video-error" /\ x.text = UnavailableText
                      /\ conn[x.to] = "open"


\* The step is a join-video-room of socket s that ended in the catch of lines
\* 168-171: thrown by the handler body, or by the meeting lookup.
JoinFails(s, m, p, prof) ==
    \/ /\ JoinRuns(s, m, p, prof)
       /\ JoinResult(activePeers, socketToPeer, subs, Open(conn), s, m, p,
                     prof).status = "error"
    \/ JoinResume([socket |-> s, meetingId |-> m, peerId |-> p, profile |-> prof],
                  "throws")

\* C12: a join-video-room that ends in the internal-error branch leaves
\* activePeers, socketToPeer and the subscriptions exactly as they were.
C12_FailedJoinChangesNothing ==
    [][\A s \in Sockets, m \in MeetingIds, p \in PeerIds, prof \in Profiles :
          JoinFails(s, m, p, prof) =>
             UNCHANGED <<activePeers, socketToPeer, subs>>]_vars


\* The participants, of any room, whose record carries the socket id s.
BackedBy(s) ==
    {<<m, p>> \in MeetingIds \X AllPeerIds :
        /\ m \in DOMAIN activePeers
        /\ p \in DOMAIN activePeers[m]
        /\ activePeers[m][p].socketId = s}

\* C13: no two participants, of one room or of two, carry the same socketId.
C13_OnePeerPerConnection ==
    \A s \in Sockets : Cardinality(BackedBy(s)) <= 1


\* The open sockets that own a participant of room m with a peer id in ps.
MemberConnections(ap, m, ps) ==
    IF m \in DOMAIN ap
    THEN {ap[m][q].socketId : q \in DOMAIN ap[m] \cap ps} \cap Open(conn)
    ELSE {}

\* C14: on a successful join of an open socket the joiner is sent the room's
\* participants as they were before its insertion, without its own peerId,
\* and the participant-joined event carrying the stored record reaches the
\* open connection of every other member that was in the room, and no
\* connection that owned no participant of the room.
C14_RosterAndAnnouncement ==
    [][\A s \in Sockets, m \in MeetingIds, p \in PeerIds, prof \in PlainProfiles :
          (JoinSucceeds(s, m, p, prof) /\ conn[s] = "open") =>
             LET before == IF m \in DOMAIN activePeers
                           THEN DOMAIN activePeers[m] \ {p} ELSE {}
                 told == {x \in out' : x.event = "participant-joined"}
             IN /\ Delivered(s, "video-joined", m, None, before)'
                /\ Delivered(s, "room-participants", m, None, before)'
                /\ \A x \in told : /\ x.via = m
                                   /\ x.rec = activePeers'[m][p]
                /\ MemberConnections(activePeers, m, PeerIds \ {p}) \ {s}
                      \subseteq {x.to : x \in told}
                /\ {x.to : x \in told}
                      \subseteq MemberConnections(activePeers, m, PeerIds)]_vars


\* The peer-disconnected events among the deliveries of the last handler.
LeftEvents(o) == {x \in o : x.event = "peer-disconnected"}

\* What a leave or disconnect step that ran for the participant (m, p)
\* delivers: when (m, p) was a participant, one peer-disconnected for p to
\* every open socket still subscribed to m and nothing else; when it was
\* not, nothing at all.
OneLeftPerRemoval(m, p) ==
    IF m \in DOMAIN activePeers /\ p \in DOMAIN activePeers[m]
    THEN /\ p \notin (IF m \in DOMAIN activePeers'
                      THEN DOMAIN activePeers'[m] ELSE {})
         /\ out' = {Msg(t, "peer-disconnected", m, p, {}, "", None) :
                      t \in Members(subs', Open(conn'), m)}
    ELSE /\ activePeers' = activePeers
         /\ out' = {}

\* C15: peer-disconnected is emitted for a room exactly when a leave or a
\* disconnect removed a participant from it, once per removal and naming the
\* removed peer; every peer-disconnected delivered names a peer that the step
\* took out of that room; a disconnect of a socket that has left (its index
\* entry is gone) emits nothing.
C15_LeftIffRemoved ==
    [][/\ \A s \in Sockets, m \in MeetingIds, p \in PeerIds :
             LeaveVideoRoom(s, m, p) =>
                (OneLeftPerRemoval(m, p) /\ s \notin DOMAIN socketToPeer')
       /\ \A s \in Sockets :
             Disconnect(s) =>
                IF s \in DOMAIN socketToPeer
                THEN OneLeftPerRemoval(socketToPeer[s].meetingId,
                                       socketToPeer[s].peerId)
                ELSE out' = {} /\ activePeers' = activePeers
       /\ \A x \in LeftEvents(out') :
             /\ x.via \in DOMAIN activePeers
             /\ x.peerId \in DOMAIN activePeers[x.via]
             /\ \/ x.via \notin DOMAIN activePeers'
                \/ x.peerId \notin DOMAIN activePeers'[x.via]
       /\ \A x \in LeftEvents(out'), y \in LeftEvents(out') :
             x.via = y.via => x.peerId = y.peerId]_vars

\* A disconnect removed a participant and an open socket of the room was
\* told that the peer left.
C15_Witness ==
    \E x \in LeftEvents(out), s \in Sockets :
       conn[s] = "closed" /\ conn[x.to] = "open" /\ x.via \in MeetingIds


\* C16: the disconnect handler is idempotent: run for a socket a second time
\* it finds the registry its first run left, changes nothing, emits nothing
\* and does not throw, from every state the server reaches (the states left
\* by a redelivered close event included).
C16_CloseIdempotent ==
    [][/\ \A s \in Sockets :
             Disconnect(s) =>
                LET r == CloseResult(activePeers, socketToPeer, subs',
                                     Open(conn'), s)
                IN activePeers' = r.ap /\ socketToPeer' = r.stp /\ out' = r.out
       /\ \A s \in Sockets :
             LET r1 == CloseResult(activePeers', socketToPeer', subs',
                                   Open(conn'), s)
                 r2 == CloseResult(r1.ap, r1.stp, subs', Open(conn'), s)
             IN /\ ~r1.threw /\ ~r2.threw
                /\ r2.ap = r1.ap /\ r2.stp = r1.stp /\ r2.out = {}
       /\ \A s \in Sockets :
             (Redeliver(s) /\ s \notin DOMAIN socketToPeer) =>
                (UNCHANGED <<activePeers, socketToPeer, subs>> /\ out' = {})]_vars

\* A close event was delivered again for a socket while another socket
\* holds a participant.
C16_Witness ==
    \E s \in Sockets, t \in Sockets :
       /\ conn[s] = "reclosed"
       /\ conn[t] = "open"
       /\ t \in DOMAIN socketToPeer


\* C17 (as written): a relayed event whose sender has a socketToPeer entry
\* carries that entry's peer id.
C17_CarriesSenderPeer ==
    \A x \in out :
       (x.event \in RelayKinds /\ x.sender \in DOMAIN socketToPeer)
          => x.peerId = socketToPeer[x.sender].peerId

\* C17: every relayed offer, answer or candidate carries the payload the
\* sender gave, unchanged, and the socket id of the connection that sent it
\* as senderSocketId; it carries no peer id, indexed sender or not.
C17_RelayCarries ==
    [][\A s \in Sockets, kind \in RelayKinds, target \in RoomNames,
          payload \in Payloads :
          Relay(s, kind, target, payload) =>
             \A x \in out' : /\ x.event = kind
                             /\ x.text = payload
                             /\ x.sender = s
                             /\ x.peerId = None
                             /\ x.rec = NoRecord]_vars

\* A socket that holds a participant relayed an event to another socket.
C17_Witness ==
    \E x \in out : /\ x.event \in RelayKinds
                   /\ x.sender \in DOMAIN socketToPeer
                   /\ x.to # x.sender
                   /\ x.text = "payload-b"


IsBlank(str) == \A i \in 1..Len(str) : str[i] = " "

\* The characters of str without the blanks before the first and after the
\* last character that is not one.
Stripped(str) ==
    IF IsBlank(str) THEN <<>>
    ELSE LET first == CHOOSE i \in 1..Len(str) :
                         str[i] # " " /\ \A j \in 1..(i - 1) : str[j] = " "
             last == CHOOSE i \in 1..Len(str) :
                        str[i] # " " /\ \A j \in (i + 1)..Len(str) : str[j] = " "
         IN SubSeq(str, first, last)

GivenText(v) == IF v.t = "string" THEN v.s ELSE <<>>

\* The name of the claim for a request, with the prefix and the placeholder
\* left open.
ExpectedName(prof, prefix, placeholder) ==
    LET given == GivenText(prof.displayName)
        uid == GivenText(prof.userId)
        n == Len(uid)
    IN IF ~IsBlank(given) THEN Stripped(given)
       ELSE IF n = 0 THEN placeholder
       ELSE prefix \o ToUpperCase([i \in 1..(IF n < 4 THEN n ELSE 4) |->
                                      uid[(IF n < 4 THEN 0 ELSE n - 4) + i]])

StoredNameIs(prefix, placeholder) ==
    \A s \in Sockets, m \in MeetingIds, p \in PeerIds, prof \in NameProfiles :
       JoinSucceeds(s, m, p, prof) =>
          LET name == activePeers'[m][p].displayName
          IN /\ ~IsBlank(name)
             /\ name = ExpectedName(prof, prefix, placeholder)

\* C18 (as written): the default name is "Participant " followed by the last
\* four characters of userId in upper case.
C18_EnglishPrefix ==
    [][StoredNameIs(<<"P", "a", "r", "t", "i", "c", "i", "p", "a", "n", "t", " ">>,
                    <<"P", "a", "r", "t", "i", "c", "i", "p", "a", "n", "t", " ",
                      "I", "N", "V", "I", "T">>)]_vars

\* C18: the displayName stored by a join is never empty or blank: it is the
\* trimmed input when that is not blank, otherwise "Participante " followed
\* by the last four characters of userId in upper case, or "Participante
\* INVIT" when userId is absent or empty; it depends on userId and
\* displayName only.
C18_DisplayName ==
    [][StoredNameIs(<<"P", "a", "r", "t", "i", "c", "i", "p", "a", "n", "t", "e",
                      " ">>,
                    <<"P", "a", "r", "t", "i", "c", "i", "p", "a", "n", "t", "e",
                      " ", "I", "N", "V", "I", "T">>)]_vars

\* A participant joined without a name and with the userId "u1abc" and is
\* stored as "Participante 1ABC".
C18_Witness ==
    \E m \in DOMAIN activePeers : \E p \in DOMAIN activePeers[m] :
       /\ activePeers[m][p].userId = Str(<<"u", "1", "a", "b", "c">>)
       /\ activePeers[m][p].displayName
             = <<"P", "a", "r", "t", "i", "c", "i", "p", "a", "n", "t", "e", " ",
                 "1", "A", "B", "C">>


\* Socket old is still indexed under (m, p) while the participant (m, p) is
\* the one a later join of the open socket new stored.
Replaced(old, new, m, p) ==
    /\ old # new
    /\ old \in DOMAIN socketToPeer
    /\ socketToPeer[old] = [meetingId |-> m, peerId |-> p]
    /\ Removed(activePeers, m, p)
    /\ activePeers[m][p].socketId = new
    /\ conn[new] = "open"
    /\ new \in DOMAIN socketToPeer
    /\ socketToPeer[new] = [meetingId |-> m, peerId |-> p]

\* C19: after a join of a new socket replaced the entry an old socket held
\* for peer p in room m, the disconnect of the old socket (or its leave for
\* (m, p)) leaves the new participant in the room, delivers no
\* peer-disconnected for p, and the new socket's index entry still names a
\* participant.
C19_OldCloseSparesNew ==
    [][\A old \in Sockets, new \in Sockets, m \in MeetingIds, p \in PeerIds :
          (Replaced(old, new, m, p)
             /\ (Disconnect(old) \/ LeaveVideoRoom(old, m, p)))
          => /\ Removed(activePeers', m, p)
             /\ activePeers'[m][p] = activePeers[m][p]
             /\ \A x \in LeftEvents(out') : x.peerId # p
             /\ socketToPeer'[new] = socketToPeer[new]]_vars


\* C20: once a join-video-room of a socket and the close of that socket have
\* both run to their end, in either order, the registry holds no participant
\* with that socket id and no index entry for it.
C20_NoParticipantOutlivesSocket ==
    [][\A req \in pending :
          (conn[req.socket] = "closed"
             /\ \E lookup \in {"active", "unavailable", "throws"} :
                   JoinResume(req, lookup))
          => /\ BackedBy(req.socket)' = {}
             /\ req.socket \notin DOMAIN socketToPeer']_vars


\* C21: when the room holds 10 participants, a join-video-room whose peerId
\* is one of them is answered with the room-full error, and the room, the
\* entry of that peerId included, the index and the subscriptions stay as
\* they were.
C21_FullBeforeReplace ==
    [][\A s \in Sockets, p \in RejoinPeerIds, prof \in PlainProfiles :
          (/\ JoinRuns(s, Mid(1), p, prof)
           /\ RoomSize(activePeers, Mid(1)) = MaxRoomSize
           /\ p \in DOMAIN activePeers[Mid(1)])
          => /\ activePeers' = activePeers
             /\ activePeers'[Mid(1)][p] = activePeers[Mid(1)][p]
             /\ UNCHANGED <<socketToPeer, subs>>
             /\ out' = IF conn[s] = "open"
                       THEN {Msg(s, "video-error", None, None, {}, FullText,
                                 None)}
                       ELSE {}]_vars

\* A socket other than the one that filled the room asked to join under a
\* peer id of the full room and holds the room-full error; all ten entries
\* are still those of socket 1.
C21_Witness ==
    /\ RoomSize(activePeers, Mid(1)) = MaxRoomSize
    /\ \E x \in out : x.text = FullText /\ x.to = Sid(2)
    /\ \A p \in DOMAIN activePeers[Mid(1)] :
          activePeers[Mid(1)][p].socketId = Sid(1)


\* The step is one of the signaling or presentation handlers.
SignalStep ==
    \/ \E s \in Sockets, kind \in RelayKinds, target \in RoomNames,
          payload \in Payloads :
          Relay(s, kind, target, payload)
    \/ \E s \in Sockets : Authenticate(s)
    \/ \E s \in Sockets, room \in RoomNames : EndMeeting(s, room)
    \/ \E s \in Sockets, room \in RoomNames, enabled \in MediaStates :
          MediaStateChange(s, room, enabled)

\* C22: webrtc-offer, webrtc-answer, ice-candidate, media-state-change,
\* end-meeting and authenticate leave activePeers (the room table and every
\* participant set) and socketToPeer unchanged, whatever their payload.
C22_SignalsKeepRegistry ==
    [][SignalStep => UNCHANGED <<activePeers, socketToPeer>>]_vars

\* The members of a room were told to disconnect and the room is still in
\* the registry with its participant and index entry.
C22_Witness ==
    \E x \in out :
       /\ x.event = "force-disconnect"
       /\ x.via \in DOMAIN activePeers
       /\ x.to \in DOMAIN socketToPeer


\* The sockets that own a participant of room m.
Owners(m) ==
    IF m \in DOMAIN activePeers
    THEN {activePeers[m][p].socketId : p \in DOMAIN activePeers[m]}
    ELSE {}

\* C23: an open socket is subscribed to the Socket.IO room of meeting m if
\* and only if some participant of room m carries its socket id.
C23_SubscribedIffParticipant ==
    \A s \in Sockets, m \in MeetingIds :
       conn[s] = "open" => (<<s, m>> \in subs <=> s \in Owners(m))


\* C24: when no socket is open any more and no join handler is suspended,
\* activePeers and socketToPeer are empty.
C24_NoLeakWhenAllGone ==
    (/\ \A s \in Sockets : conn[s] # "open"
     /\ pending = {})
    => (activePeers = EmptyMap /\ socketToPeer = EmptyMap)


\* C25: a leave-video-room of socket s for (m, p) removes the participant
\* (m, p) only when that participant carries the socket id s, and deletes the
\* index entry of s only when that entry is (m, p).
C25_LeaveOnlyOwn ==
    [][\A s \in Sockets, m \in MeetingIds, p \in PeerIds :
          LeaveVideoRoom(s, m, p) =>
             /\ (Removed(activePeers, m, p) /\ ~Removed(activePeers', m, p))
                   => activePeers[m][p].socketId = s
             /\ (s \in DOMAIN socketToPeer /\ s \notin DOMAIN socketToPeer')
                   => socketToPeer[s] = [meetingId |-> m, peerId |-> p]]_vars


\* No room holds a participant with the peer id p.
NoRoomHolds(ap, p) == \A m \in DOMAIN ap : p \notin DOMAIN ap[m]

\* No index entry names the peer id p.
NoIndexNames(stp, p) == \A s \in DOMAIN stp : stp[s].peerId # p

\* C26: after peerServer 'disconnect' of client id p no room holds a
\* participant p, activePeers has no empty room, and no socketToPeer entry
\* names p.
C26_PeerGoneEverywhere ==
    [][\A p \in PeerIds :
          PeerServerDisconnect(p) =>
             /\ NoRoomHolds(activePeers', p)
             /\ \A m \in DOMAIN activePeers' : DOMAIN activePeers'[m] # {}
             /\ NoIndexNames(socketToPeer', p)]_vars


\* The room-scoped events of end-meeting and media-state-change.
RoomEvents == {"force-disconnect", "media-state-changed"}

\* C27: an end-meeting or media-state-change of socket s for the room of a
\* meeting delivers force-disconnect or media-state-changed to connections
\* of that room only if s carries a participant of it.
C27_OnlyMembersReachRoom ==
    [][\A s \in Sockets, m \in MeetingIds :
          (\/ EndMeeting(s, m)
           \/ \E enabled \in MediaStates : MediaStateChange(s, m, enabled))
          => ((\E x \in out' : x.event \in RoomEvents /\ x.via = m)
                 => s \in Owners(m))]_vars

====
